---- MODULE Spec2Model ----
(***************************************************************************)
(* Model of the newsletter digest pipeline of                              *)
(* src/adapters/news/aggregate_ai_news.py.                                 *)
(*                                                                         *)
(* A Python str is a sequence of one-character strings, "\n" included, so  *)
(* that len(), strip(), lower(), splitlines() and the regular expressions  *)
(* are computed character by character.  The alphabet of the inputs has    *)
(* " ", "\t" and "\n" as its only whitespace and "\n" as its only line     *)
(* terminator.                                                             *)
(***************************************************************************)
EXTENDS Integers, Sequences, FiniteSets, TLC

VARIABLES
    cm_input,     \* clean_md: the argument md
    cm_lines,     \* clean_md: (md or "").splitlines()
    cm_i,         \* clean_md: number of lines the for loop has consumed
    cm_skipping,  \* clean_md: local skipping
    cm_out,       \* clean_md: local out
    cm_pc,        \* clean_md: "off" | "loop" | "done"
    cm_result,    \* clean_md: the returned text
    tp_input,     \* topics: the document given to split_topics
    tp_pc,        \* topics: "off" | "doc" | "split" | "again"
    tp_topics,    \* topics: split_topics(tp_input)
    tp_heads,     \* topics: extract_headlines(tp_input)
    tp_bold,      \* topics: the titles of tp_topics written as bold lines
    tp_again,     \* topics: split_topics(tp_bold)
    tp_bodied,    \* topics: split_topics of the bold lines, a text line under each
    tl_input,     \* TLDR: the document given to extract_tldr_items
    tl_pc,        \* TLDR: "off" | "doc" | "links" | "done"
    tl_ref,       \* TLDR: parse_reference_links(tl_input)
    tl_items,     \* TLDR: extract_tldr_items(tl_input)
    cs_frm,       \* classifier: the From header
    cs_sub,       \* classifier: the Subject header
    cs_pc,        \* classifier: "off" | "call" | "done"
    cs_canon,     \* classifier: canonicalize_source(cs_frm, cs_sub)
    rn_per,       \* renderers: the per-source table
    rn_pc,        \* renderers: "off" | "table" | "md" | "done"
    rn_md,        \* renderers: build_md_archive(rn_per, today)
    rn_html,      \* renderers: build_html_email_headlines(rn_per, today)
    mn_mailbox,   \* main: the messages the mailbox query matches, in the order listed
    mn_pc,        \* main: position in main()
    mn_k,         \* main: number of ids the for loop has consumed
    mn_per,       \* main: local per
    mn_log,       \* main: the locals of each iteration of the loop, in order
    mn_notice,    \* main: what has been printed
    mn_md_file,   \* main: content of the .md archive file, <<>> while not written
    mn_html_file, \* main: content of the .html archive file, <<>> while not written
    mn_sent       \* main: the messages handed to send_email

cleanVars == <<cm_input, cm_lines, cm_i, cm_skipping, cm_out, cm_pc, cm_result>>
topicVars == <<tp_input, tp_pc, tp_topics, tp_heads, tp_bold, tp_again, tp_bodied>>
tldrVars == <<tl_input, tl_pc, tl_ref, tl_items>>
classVars == <<cs_frm, cs_sub, cs_pc, cs_canon>>
renderVars == <<rn_per, rn_pc, rn_md, rn_html>>
mainVars == <<mn_mailbox, mn_pc, mn_k, mn_per, mn_log, mn_notice,
              mn_md_file, mn_html_file, mn_sent>>
vars == <<cleanVars, topicVars, tldrVars, classVars, renderVars, mainVars>>

\* A function under study that the specification at hand does not exercise
CleanOff ==
    /\ cm_input = <<>> /\ cm_lines = <<>> /\ cm_i = 0 /\ cm_skipping = FALSE
    /\ cm_out = <<>> /\ cm_pc = "off" /\ cm_result = <<>>
TopicsOff ==
    /\ tp_input = <<>> /\ tp_pc = "off" /\ tp_topics = <<>> /\ tp_heads = <<>>
    /\ tp_bold = <<>> /\ tp_again = <<>> /\ tp_bodied = <<>>
TldrOff ==
    /\ tl_input = <<>> /\ tl_pc = "off" /\ tl_ref = <<>> /\ tl_items = <<>>
ClassOff ==
    /\ cs_frm = <<>> /\ cs_sub = <<>> /\ cs_pc = "off" /\ cs_canon = <<>>
RenderOff ==
    /\ rn_per = <<>> /\ rn_pc = "off" /\ rn_md = <<>> /\ rn_html = <<>>
MainOff ==
    /\ mn_mailbox = <<>> /\ mn_pc = "off" /\ mn_k = 0 /\ mn_per = <<>>
    /\ mn_log = <<>> /\ mn_notice = <<>> /\ mn_md_file = <<>>
    /\ mn_html_file = <<>> /\ mn_sent = <<>>

----------------------------------------------------------------------------
(* Characters and Python str methods *)

UpperLetters == <<"A","B","C","D","E","F","G","H","I","J","K","L","M",
                  "N","O","P","Q","R","S","T","U","V","W","X","Y","Z">>
LowerLetters == <<"a","b","c","d","e","f","g","h","i","j","k","l","m",
                  "n","o","p","q","r","s","t","u","v","w","x","y","z">>
Digits == {"0","1","2","3","4","5","6","7","8","9"}
Range(f) == {f[i] : i \in DOMAIN f}
IsUpper(c) == c \in Range(UpperLetters)
IsLower(c) == c \in Range(LowerLetters)
IsLetter(c) == IsUpper(c) \/ IsLower(c)
IsDigit(c) == c \in Digits
\* \s and str.strip() whitespace
IsSpace(c) == c \in {" ", "\t", "\n"}
\* \w
IsWord(c) == IsLetter(c) \/ IsDigit(c) \/ c = "_"

LowerChar(c) ==
    IF IsUpper(c)
    THEN LowerLetters[CHOOSE i \in 1..26 : UpperLetters[i] = c]
    ELSE c
\* str.lower()
lower(s) == [i \in 1..Len(s) |-> LowerChar(s[i])]

\* s[a:b] with 1-based inclusive bounds, empty when a > b
Slice(s, a, b) == IF a > b THEN <<>> ELSE SubSeq(s, a, b)
StartsWith(s, p) == Len(s) >= Len(p) /\ Slice(s, 1, Len(p)) = p
EndsWith(s, p) == Len(s) >= Len(p) /\ Slice(s, Len(s) - Len(p) + 1, Len(s)) = p
\* p occurs in s at position i
OccursAt(s, p, i) ==
    /\ i >= 1
    /\ i + Len(p) - 1 <= Len(s)
    /\ \A j \in 1..Len(p) : s[i + j - 1] = p[j]
\* p in s
Contains(s, p) == \E i \in 1..(Len(s) - Len(p) + 1) : OccursAt(s, p, i)

\* Number of leading / trailing characters of s satisfying IsSpace
LeadSpaces(s) ==
    IF \A i \in 1..Len(s) : IsSpace(s[i]) THEN Len(s)
    ELSE (CHOOSE i \in 1..Len(s) :
            ~IsSpace(s[i]) /\ \A j \in 1..(i-1) : IsSpace(s[j])) - 1
TrailSpaces(s) ==
    IF \A i \in 1..Len(s) : IsSpace(s[i]) THEN Len(s)
    ELSE Len(s) - (CHOOSE i \in 1..Len(s) :
            ~IsSpace(s[i]) /\ \A j \in (i+1)..Len(s) : IsSpace(s[j]))
\* str.rstrip(), str.lstrip(), str.strip()
rstrip(s) == Slice(s, 1, Len(s) - TrailSpaces(s))
lstrip(s) == Slice(s, LeadSpaces(s) + 1, Len(s))
strip(s) == lstrip(rstrip(s))

\* str.splitlines(): no empty last line after a final "\n"
RECURSIVE splitlines(_)
splitlines(s) ==
    IF s = <<>> THEN <<>>
    ELSE IF \A i \in 1..Len(s) : s[i] # "\n" THEN <<s>>
    ELSE LET nl == CHOOSE i \in 1..Len(s) :
                      s[i] = "\n" /\ \A j \in 1..(i-1) : s[j] # "\n"
         IN  <<Slice(s, 1, nl - 1)>> \o splitlines(Slice(s, nl + 1, Len(s)))

\* "\n".join(lines)
RECURSIVE join(_)
join(lines) ==
    IF lines = <<>> THEN <<>>
    ELSE IF Len(lines) = 1 THEN lines[1]
    ELSE lines[1] \o <<"\n">> \o join(Tail(lines))

\* \b after position k of s (between s[k] and s[k+1])
WordBoundary(s, k) ==
    LET before == k >= 1 /\ k <= Len(s) /\ IsWord(s[k])
        after == k + 1 >= 1 /\ k + 1 <= Len(s) /\ IsWord(s[k + 1])
    IN  before # after
\* re.search(r"\bP\b", s) for a literal P
ContainsWord(s, p) ==
    \E i \in 1..(Len(s) - Len(p) + 1) :
        OccursAt(s, p, i) /\ WordBoundary(s, i - 1) /\ WordBoundary(s, i + Len(p) - 1)

----------------------------------------------------------------------------
(* Cleaning: clean_md *)

Min(S) == CHOOSE x \in S : \A y \in S : x <= y
Max(S) == 0 - Min({0 - x : x \in S})

\* Length of the run that starts at position i of s and ends before the first
\* of the positions stops
RunLen(s, i, stops) ==
    IF {j \in stops : j >= i} = {} THEN Len(s) - i + 1
    ELSE Min({j \in stops : j >= i}) - i
\* The runs of the character classes \s, \S, \d, \n, [^\n] and [^\s\)\]]
NonSpace(c) == ~IsSpace(c)
SpaceRun(s, i) == RunLen(s, i, {j \in 1..Len(s) : ~IsSpace(s[j])})
NonSpaceRun(s, i) == RunLen(s, i, {j \in 1..Len(s) : IsSpace(s[j])})
DigitRun(s, i) == RunLen(s, i, {j \in 1..Len(s) : ~IsDigit(s[j])})
NlRun(s, i) == RunLen(s, i, {j \in 1..Len(s) : s[j] # "\n"})
NonNlRun(s, i) == RunLen(s, i, {j \in 1..Len(s) : s[j] = "\n"})
UrlCharRun(s, i) == RunLen(s, i, {j \in 1..Len(s) : IsSpace(s[j]) \/ s[j] \in {")", "]"}})

\* The literals of SPONSOR_HDR_PAT, of the "(sponsor" / "sponsor)" tests, of
\* FOOTER_LINE_PAT and of the social-domain pattern, as matched against the
\* lowercased line
P_together_with == <<"t","o","g","e","t","h","e","r"," ","w","i","t","h">>
P_sponsored == <<"s","p","o","n","s","o","r","e","d">>
P_lpar_sponsor == <<"(","s","p","o","n","s","o","r">>
P_sponsor_rpar == <<"s","p","o","n","s","o","r",")">>
FooterWords == {
    <<"u","n","s","u","b","s","c","r","i","b","e">>,
    <<"p","r","i","v","a","c","y"," ","p","o","l","i","c","y">>,
    <<"t","e","r","m","s"," ","o","f"," ","s","e","r","v","i","c","e">>,
    <<"m","a","n","a","g","e"," ","p","r","e","f","e","r","e","n","c","e","s">>,
    <<"m","a","n","a","g","e"," ","y","o","u","r"," ","p","r","e","f","e","r","e","n","c","e","s">>,
    <<"v","i","e","w"," ","i","n"," ","b","r","o","w","s","e","r">>,
    <<"m","a","n","a","g","e"," ","s","u","b","s","c","r","i","p","t","i","o","n","s">> }
SocialDomains == {
    <<"f","a","c","e","b","o","o","k",".","c","o","m">>,
    <<"t","w","i","t","t","e","r",".","c","o","m">>,
    <<"l","i","n","k","e","d","i","n",".","c","o","m">>,
    <<"i","n","s","t","a","g","r","a","m",".","c","o","m">> }
FooterMaxLen == 140
LongUrlLen == 80

\* FOOTER_LINE_PAT.search(l)
FOOTER_LINE_PAT(l) == \E w \in FooterWords : ContainsWord(l, w)
\* SPONSOR_HDR_PAT.match(l): ^(together with|sponsored)\b
SPONSOR_HDR_PAT(l) ==
    \/ StartsWith(l, P_together_with) /\ WordBoundary(l, Len(P_together_with))
    \/ StartsWith(l, P_sponsored) /\ WordBoundary(l, Len(P_sponsored))
\* re.search(r"(facebook|twitter|linkedin|instagram)\.com", l)
SocialDomain(l) == \E d \in SocialDomains : Contains(l, d)
\* re.match(r"^[A-Z].+?:$", s)
LabelLine(s) == Len(s) >= 3 /\ IsUpper(s[1]) /\ s[Len(s)] = ":"

\* The test of line 146: the line starts a sponsor block
SponsorStart(l) ==
    SPONSOR_HDR_PAT(l) \/ Contains(l, P_lpar_sponsor) \/ Contains(l, P_sponsor_rpar)
\* The test of line 148: the line ends skip mode
SkipExit(line, l) ==
    l = <<>> \/ StartsWith(l, <<"#">>) \/ LabelLine(strip(line))
\* The test of line 152: the line is a footer line
FooterDrop(line, l) ==
    (FOOTER_LINE_PAT(l) \/ SocialDomain(l)) /\ Len(line) <= FooterMaxLen

\* The loop body without the exit test of line 148: skip mode never ends
CleanStep_NoExit(st, raw) ==
    LET line == rstrip(raw)
        l == lower(strip(line))
    IN  IF SponsorStart(l) \/ st.skipping THEN [skipping |-> TRUE, out |-> st.out]
        ELSE IF FooterDrop(line, l) THEN st
        ELSE [skipping |-> st.skipping, out |-> Append(st.out, line)]

\* One iteration of the for loop of clean_md on the line raw, from the
\* locals st = [skipping, out]
CleanStep(st, raw) ==
    LET line == rstrip(raw)
        l == lower(strip(line))
    IN  IF SponsorStart(l) THEN [skipping |-> TRUE, out |-> st.out]
        ELSE IF st.skipping /\ SkipExit(line, l)
             THEN IF l = <<>> THEN [skipping |-> FALSE, out |-> st.out]
                  ELSE IF FooterDrop(line, l)
                       THEN [skipping |-> FALSE, out |-> st.out]
                       ELSE [skipping |-> FALSE, out |-> Append(st.out, line)]
        ELSE IF st.skipping THEN st
        ELSE IF FooterDrop(line, l) THEN st
        ELSE [skipping |-> st.skipping, out |-> Append(st.out, line)]

\* re.sub(r"\n{3,}", "\n\n", text)
RECURSIVE CollapseNewlines(_)
CollapseNewlines(s) ==
    IF s = <<>> THEN <<>>
    ELSE LET n == NlRun(s, 1)
             m == NonNlRun(s, 1)
         IN  IF n > 0
             THEN (IF n >= 3 THEN <<"\n","\n">> ELSE Slice(s, 1, n))
                  \o CollapseNewlines(Slice(s, n + 1, Len(s)))
             ELSE Slice(s, 1, m) \o CollapseNewlines(Slice(s, m + 1, Len(s)))

\* str.split("\n")
RECURSIVE SplitNl(_)
SplitNl(s) ==
    IF \A i \in 1..Len(s) : s[i] # "\n" THEN <<s>>
    ELSE LET nl == Min({i \in 1..Len(s) : s[i] = "\n"})
         IN  <<Slice(s, 1, nl - 1)>> \o SplitNl(Slice(s, nl + 1, Len(s)))

\* re.sub(r"[ \t]+$", "", text, flags=re.M): the blanks and tabs that end a line
StripLineEnds(s) ==
    LET IsBlankTab(c) == c \in {" ", "\t"}
        parts == SplitNl(s)
        cut(p) == IF p = <<>> THEN p
                  ELSE LET keep == {i \in 1..Len(p) : ~IsBlankTab(p[i])}
                       IN  IF keep = {} THEN <<>> ELSE Slice(p, 1, Max(keep))
    IN  join([k \in 1..Len(parts) |-> cut(parts[k])])

\* End of the match of https?://\S{80,} starting at position i of s, or 0
UrlMatchEnd(s, i) ==
    LET j == IF OccursAt(s, <<"h","t","t","p","s",":","/","/">>, i) THEN i + 8
             ELSE IF OccursAt(s, <<"h","t","t","p",":","/","/">>, i) THEN i + 7
             ELSE 0
    IN  IF j = 0 THEN 0
        ELSE IF NonSpaceRun(s, j) >= LongUrlLen
             THEN j + NonSpaceRun(s, j) - 1
             ELSE 0
\* re.sub(r"https?://\S{80,}", "", text)
RECURSIVE StripLongUrls(_)
StripLongUrls(s) ==
    LET starts == {i \in 1..Len(s) : s[i] = "h" /\ UrlMatchEnd(s, i) > 0}
    IN  IF starts = {} THEN s
        ELSE Slice(s, 1, Min(starts) - 1)
             \o StripLongUrls(Slice(s, UrlMatchEnd(s, Min(starts)) + 1, Len(s)))

\* Lines 155-159 of clean_md: the text returned for the kept lines out
CleanFinish(out) ==
    strip(StripLongUrls(StripLineEnds(CollapseNewlines(join(out)))))

\* The for loop of clean_md over lines[from..], from the locals st
RECURSIVE CleanLoop(_, _, _)
CleanLoop(st, lines, from) ==
    IF from > Len(lines) THEN st
    ELSE CleanLoop(CleanStep(st, lines[from]), lines, from + 1)

clean_md(md) ==
    CleanFinish(CleanLoop([skipping |-> FALSE, out |-> <<>>], splitlines(md), 1).out)

----------------------------------------------------------------------------
(* Topics and helpers: the heading patterns, extract_headlines, split_topics *)

\* The result of a pattern that did not match
NoMatch == [ok |-> FALSE, h |-> <<>>]
MinHeadingLen == 6
P_minute_read == <<"m","i","n","u","t","e"," ","r","e","a","d">>

\* Index of the last character of s that is not whitespace, 0 if none
LastNonSpace(s) == Len(s) - TrailSpaces(s)
\* Index of the last "*" of s at or before position k, 0 if none
LastStar(s, k) ==
    LET stars == {j \in 1..k : s[j] = "*"}
    IN  IF stars = {} THEN 0 ELSE Max(stars)

\* HEADLINE_BOLD.match(ln): ^\s*[\-\*]?\s*\*\*(?P<h>[^*]{6,})\*\*\s*$
\* The closing "**" are the last two non-blank characters (they end at e), h
\* is the star-free stretch before them (it starts at hs), and what precedes
\* the opening "**" is blanks with at most one "-" or "*".
BoldPrefixOk(prefix) ==
    /\ Cardinality({i \in 1..Len(prefix) : ~IsSpace(prefix[i])}) <= 1
    /\ \A i \in 1..Len(prefix) : IsSpace(prefix[i]) \/ prefix[i] \in {"-", "*"}
BoldMatch(ln, e, hs) ==
    IF /\ e >= 2
       /\ ln[e] = "*" /\ ln[e - 1] = "*"
       /\ hs >= 3
       /\ ln[hs - 1] = "*" /\ ln[hs - 2] = "*"
       /\ (e - 2) - hs + 1 >= MinHeadingLen
       /\ BoldPrefixOk(Slice(ln, 1, hs - 3))
    THEN [ok |-> TRUE, h |-> Slice(ln, hs, e - 2)]
    ELSE NoMatch
BoldEnd(ln, e) == BoldMatch(ln, e, LastStar(ln, e - 2) + 1)
HEADLINE_BOLD(ln) == BoldEnd(ln, LastNonSpace(ln))

\* Position of the "(" of a final "(<digits><blanks>minute read)" that ends
\* at position e of s, the letters in either case; 0 if there is none.
\* m is the first letter of "minute read", d the last digit, q the "(".
MinuteReadParen(s, e, m, d, q) ==
    IF /\ e >= 1 /\ e <= Len(s) /\ s[e] = ")"
       /\ m >= 1
       /\ lower(Slice(s, m, e - 1)) = P_minute_read
       /\ d >= 1 /\ IsDigit(s[d])
       /\ q >= 1 /\ s[q] = "("
    THEN q ELSE 0
LastNonDigit(s, d) ==
    LET nondigits == {j \in 1..d : ~IsDigit(s[j])}
    IN  IF nondigits = {} THEN 0 ELSE Max(nondigits)
MinuteReadDigits(s, e, m, d) == MinuteReadParen(s, e, m, d, LastNonDigit(s, d))
MinuteReadWord(s, e, m) ==
    MinuteReadDigits(s, e, m, IF m >= 1 THEN LastNonSpace(Slice(s, 1, m - 1)) ELSE 0)
MinuteReadStart(s, e) == MinuteReadWord(s, e, e - Len(P_minute_read))

\* HEADLINE_MINREAD.match(ln): ^([A-Z].+?)\s*\(\d+\s*minute read\)\s*$ with re.I
\* Group 1 is the shortest prefix of two characters or more that only blanks
\* separate from the final "(N minute read)", whose "(" is at q.
MinReadGroup(prefix, stripped) ==
    IF Len(stripped) >= 2 THEN stripped ELSE Slice(prefix, 1, 2)
MinReadMatch(ln, q) ==
    IF q >= 3 /\ IsLetter(ln[1])
    THEN [ok |-> TRUE, h |-> MinReadGroup(Slice(ln, 1, q - 1), rstrip(Slice(ln, 1, q - 1)))]
    ELSE NoMatch
HEADLINE_MINREAD(ln) == MinReadMatch(ln, MinuteReadStart(ln, LastNonSpace(ln)))

\* SECTION_H2.match(ln): ^##\s+(?P<h>.+?)\s*$
H2Group(rest, stripped) ==
    IF stripped = <<>> THEN <<rest[Len(rest)]>> ELSE stripped
SECTION_H2(ln) ==
    IF StartsWith(ln, <<"#","#">>) /\ Len(ln) >= 4 /\ IsSpace(ln[3])
    THEN [ok |-> TRUE, h |-> H2Group(Slice(ln, 3, Len(ln)), strip(Slice(ln, 3, Len(ln))))]
    ELSE NoMatch

\* m = b or r or h, and (m.groupdict().get("h") or m.group(1)).strip()
FirstMatch(b, r, h) ==
    IF b.ok THEN [ok |-> TRUE, h |-> strip(b.h)]
    ELSE IF r.ok THEN [ok |-> TRUE, h |-> strip(r.h)]
    ELSE IF h.ok THEN [ok |-> TRUE, h |-> strip(h.h)]
    ELSE NoMatch
\* m = HEADLINE_BOLD.match(ln) or HEADLINE_MINREAD.match(ln) or SECTION_H2.match(ln)
HeadingMatch(ln) == FirstMatch(HEADLINE_BOLD(ln), HEADLINE_MINREAD(ln), SECTION_H2(ln))

\* The subsequence of s at the indices i >= from with keep[i], in order
RECURSIVE SelectIdx(_, _, _)
SelectIdx(s, keep, from) ==
    IF from > Len(s) THEN <<>>
    ELSE (IF keep[from] THEN <<s[from]>> ELSE <<>>) \o SelectIdx(s, keep, from + 1)

\* s without the later occurrences of its elements ("if x not in seen")
Dedupe(s) ==
    LET First(i) == \A j \in 1..(i - 1) : s[j] # s[i]
    IN  SelectIdx(s, [i \in 1..Len(s) |-> First(i)], 1)

\* The marks of split_topics: (i, t) of the heading lines with len(t) >= 6,
\* hm being the match of each line
MarksOf(hm) ==
    SelectIdx([i \in 1..Len(hm) |-> [i |-> i, t |-> hm[i].h]],
              [i \in 1..Len(hm) |-> hm[i].ok /\ Len(hm[i].h) >= MinHeadingLen], 1)
Marks(lines) == MarksOf([i \in 1..Len(lines) |-> HeadingMatch(lines[i])])

\* The texts of the marks, in order
MarkTexts(marks) == [n \in 1..Len(marks) |-> marks[n].t]
extract_headlines(md) == Dedupe(MarkTexts(Marks(splitlines(md))))

\* Lines 199-203: the (t, body) of every mark, body being the text between the
\* mark and the next one
TopicAt(lines, marks, n) ==
    [t |-> marks[n].t,
     body |-> strip(join(Slice(lines, marks[n].i + 1,
                               (IF n + 1 <= Len(marks) THEN marks[n + 1].i
                                ELSE Len(lines) + 1) - 1)))]
AllTopics(lines, marks) == [n \in 1..Len(marks) |-> TopicAt(lines, marks, n)]
\* "if body: out.append((t,body))"
WithBody(topics) ==
    SelectIdx(topics, [n \in 1..Len(topics) |-> topics[n].body # <<>>], 1)
TopicsOfLines(lines) == AllTopics(lines, Marks(lines))

\* split_topics with the test "if body" of line 202 left out
split_topics_KeepEmpty(md) == TopicsOfLines(splitlines(md))

split_topics(md) == WithBody(TopicsOfLines(splitlines(md)))

\* URL_RE.search(md_segment): https?://[^\s\)\]]+ ; the first URL or <<>>
first_url(seg) ==
    LET After(i) == IF OccursAt(seg, <<"h","t","t","p","s",":","/","/">>, i) THEN i + 8
                    ELSE IF OccursAt(seg, <<"h","t","t","p",":","/","/">>, i) THEN i + 7
                    ELSE 0
        starts == {i \in 1..Len(seg) :
                     seg[i] = "h" /\ After(i) > 0 /\ UrlCharRun(seg, After(i)) >= 1}
    IN  IF starts = {} THEN <<>>
        ELSE Slice(seg, Min(starts),
                   After(Min(starts)) + UrlCharRun(seg, After(Min(starts))) - 1)

----------------------------------------------------------------------------
(* compact *)

\* re.sub(r"^(\s*[-*+])\s+", r"\1 ", l)
NormalizeBullet(l) ==
    LET k == LeadSpaces(l)
    IN  IF /\ k + 2 <= Len(l)
           /\ l[k + 1] \in {"-", "*", "+"}
           /\ IsSpace(l[k + 2])
        THEN Slice(l, 1, k + 1) \o <<" ">>
             \o Slice(l, k + 2 + SpaceRun(l, k + 2), Len(l))
        ELSE l

\* re.sub(r"\s{2,}", " ", l)
RECURSIVE CollapseSpaces(_)
CollapseSpaces(s) ==
    IF s = <<>> THEN <<>>
    ELSE LET n == SpaceRun(s, 1)
             m == NonSpaceRun(s, 1)
         IN  IF n > 0
             THEN (IF n >= 2 THEN <<" ">> ELSE Slice(s, 1, n))
                  \o CollapseSpaces(Slice(s, n + 1, Len(s)))
             ELSE Slice(s, 1, m) \o CollapseSpaces(Slice(s, m + 1, Len(s)))

\* One iteration of the for loop of compact on the right-stripped line l,
\* from the locals st = [out, blank]
CompactStep(st, l) ==
    IF strip(l) = <<>>
    THEN [out |-> IF ~st.blank THEN Append(st.out, <<>>) ELSE st.out, blank |-> TRUE]
    ELSE [out |-> Append(st.out, strip(CollapseSpaces(NormalizeBullet(l)))),
          blank |-> FALSE]
RECURSIVE CompactLoop(_, _, _)
CompactLoop(st, lines, from) ==
    IF from > Len(lines) THEN st
    ELSE CompactLoop(CompactStep(st, rstrip(lines[from])), lines, from + 1)

compact(md) ==
    strip(join(CompactLoop([out |-> <<>>, blank |-> FALSE], splitlines(md), 1).out))

----------------------------------------------------------------------------
(* TLDR-specific extraction *)

NoTitle == [ok |-> FALSE, title |-> <<>>, id |-> <<>>]
NoLink == [ok |-> FALSE, id |-> <<>>, url |-> <<>>]
\* The class [A-Z0-9'&\-\.,: ] under re.I
TldrTitleChar(c) == IsLetter(c) \/ IsDigit(c) \/ c \in {"'", "&", "-", ".", ",", ":", " "}
P_links == <<"l","i","n","k","s",":">>

\* Position after "http://" or "https://" at position u of s, 0 if neither is there
UrlAfter(s, u) ==
    IF OccursAt(s, <<"h","t","t","p","s",":","/","/">>, u) THEN u + 8
    ELSE IF OccursAt(s, <<"h","t","t","p",":","/","/">>, u) THEN u + 7
    ELSE 0

\* TLDR_TITLE_LINE.match(s):
\*   ^([A-Z0-9'&\-\.,: ]+?)\s*\(\d+\s*MINUTE READ\)\s*\[(\d+)\]\s*$  with re.I
\* e is the "]", b the "[", q the "(" and g group 1, the shortest prefix of
\* one character or more that only blanks separate from the "("
TitleFound(s, e, b, q, g) ==
    IF /\ e >= 3 /\ s[e] = "]"
       /\ IsDigit(s[e - 1])
       /\ b >= 1 /\ s[b] = "["
       /\ q >= 2
       /\ \A i \in 1..Len(g) : TldrTitleChar(g[i])
    THEN [ok |-> TRUE, title |-> g, id |-> Slice(s, b + 1, e - 1)]
    ELSE NoTitle
TitleGroup(prefix, stripped) ==
    IF stripped # <<>> THEN stripped ELSE Slice(prefix, 1, 1)
TitleParen(s, e, b, q) ==
    TitleFound(s, e, b, q, TitleGroup(Slice(s, 1, q - 1), rstrip(Slice(s, 1, q - 1))))
TitleBracket(s, e, b) ==
    TitleParen(s, e, b, MinuteReadStart(s, LastNonSpace(Slice(s, 1, b - 1))))
TitleEnd(s, e) == TitleBracket(s, e, LastNonDigit(s, e - 1))
TLDR_TITLE_LINE(s) == TitleEnd(s, LastNonSpace(s))

\* TLDR_LINK_LINE.match(s): ^\[(\d+)\]\s+(https?://\S+)\s*$
\* k is the "]", ns the number of blanks after it, u the start of the URL,
\* after the position that follows its scheme, last the end of the line
LinkFound(s, k, ns, u, after, last) ==
    IF /\ Len(s) >= 3 /\ s[1] = "["
       /\ k >= 3
       /\ k <= Len(s) /\ s[k] = "]"
       /\ ns >= 1
       /\ after > 0
       /\ last >= after
       /\ NonSpaceRun(s, after) = last - after + 1
    THEN [ok |-> TRUE, id |-> Slice(s, 2, k - 1), url |-> Slice(s, u, last)]
    ELSE NoLink
LinkUrl(s, k, ns) ==
    LinkFound(s, k, ns, k + 1 + ns, UrlAfter(s, k + 1 + ns), LastNonSpace(s))
LinkId(s, k) == LinkUrl(s, k, SpaceRun(s, k + 1))
TLDR_LINK_LINE(s) == LinkId(s, 2 + DigitRun(s, 2))

\* The dict d with d[k] = v
DictPut(d, k, v) == [x \in DOMAIN d \cup {k} |-> IF x = k THEN v ELSE d[x]]
EmptyDict == [x \in {} |-> <<>>]

\* One iteration of the for loop of parse_reference_links, from the locals
\* st = [in_links, links]; isLinks is the test of line 224, m the match of
\* line 228
RefStep(st, isLinks, m) ==
    IF isLinks THEN [in_links |-> TRUE, links |-> st.links]
    ELSE IF st.in_links /\ m.ok
         THEN [in_links |-> TRUE, links |-> DictPut(st.links, m.id, m.url)]
         ELSE st
RECURSIVE RefLoop(_, _, _)
RefLoop(st, lines, from) ==
    IF from > Len(lines) THEN st
    ELSE RefLoop(RefStep(st, StartsWith(lower(strip(lines[from])), P_links),
                         TLDR_LINK_LINE(strip(lines[from]))),
                 lines, from + 1)

\* parse_reference_links with in_links true from the start
parse_reference_links_AnyLine(md) ==
    RefLoop([in_links |-> TRUE, links |-> EmptyDict], splitlines(md), 1).links

parse_reference_links(md) ==
    RefLoop([in_links |-> FALSE, links |-> EmptyDict], splitlines(md), 1).links

\* str.rstrip(".")
RStripDots(s) ==
    LET nondots == {j \in 1..Len(s) : s[j] # "."}
    IN  IF nondots = {} THEN <<>> ELSE Slice(s, 1, Max(nondots))

\* Lines 242-249 for the match m of one line: the (title, url) and whether
\* it is appended
ItemAt(ref, m) ==
    IF m.ok /\ m.id \in DOMAIN ref
    THEN [ok |-> TRUE, t |-> RStripDots(strip(m.title)), u |-> ref[m.id]]
    ELSE [ok |-> FALSE, t |-> <<>>, u |-> <<>>]
ItemsOf(ref, lines) ==
    [i \in 1..Len(lines) |-> ItemAt(ref, TLDR_TITLE_LINE(strip(lines[i])))]
Appended(items) ==
    SelectIdx([n \in 1..Len(items) |-> [t |-> items[n].t, u |-> items[n].u]],
              [n \in 1..Len(items) |-> items[n].ok], 1)

\* Lines 241-258: the items for the link table ref
ItemsFrom(ref, md) == Dedupe(Appended(ItemsOf(ref, splitlines(md))))

extract_tldr_items(md) == ItemsFrom(parse_reference_links(md), md)

----------------------------------------------------------------------------
(* Source classification *)

N_TheNeuron == <<"T","h","e"," ","N","e","u","r","o","n">>
N_TheDownload == <<"T","h","e"," ","D","o","w","n","l","o","a","d">>
N_TldrAi == <<"T","L","D","R"," ","A","I">>
N_Superhuman == <<"S","u","p","e","r","h","u","m","a","n">>
N_TheRundownAi == <<"T","h","e"," ","R","u","n","d","o","w","n"," ","A","I">>
N_Unknown == <<"U","n","k","n","o","w","n">>
P_subject == <<"s","u","b","j","e","c","t",":">>

CANONICAL_SOURCES == <<N_TheNeuron, N_TheDownload, N_TldrAi, N_Superhuman, N_TheRundownAi>>

\* Each rule r"<domain>|subject:.*\b<keyword>\b" with its source; the literals
\* are the pattern's own, the "." of the domain being escaped there
SOURCE_RULES == <<
    [domain |-> <<"t","h","e","n","e","u","r","o","n","d","a","i","l","y",".","c","o","m">>,
     keyword |-> <<"N","e","u","r","o","n">>,
     canon |-> N_TheNeuron],
    [domain |-> <<"t","e","c","h","n","o","l","o","g","y","r","e","v","i","e","w",".","c","o","m">>,
     keyword |-> <<"T","h","e"," ","D","o","w","n","l","o","a","d">>,
     canon |-> N_TheDownload],
    [domain |-> <<"t","l","d","r","n","e","w","s","l","e","t","t","e","r",".","c","o","m">>,
     keyword |-> <<"T","L","D","R"," ","A","I">>,
     canon |-> N_TldrAi],
    [domain |-> <<"s","u","p","e","r","h","u","m","a","n",".","a","i">>,
     keyword |-> <<"S","u","p","e","r","h","u","m","a","n">>,
     canon |-> N_Superhuman],
    [domain |-> <<"t","h","e","r","u","n","d","o","w","n",".","a","i">>,
     keyword |-> <<"R","u","n","d","o","w","n">>,
     canon |-> N_TheRundownAi] >>

\* re.search(pat, hay) for the rule: no flag is given, so the letters of the
\* pattern match themselves only
RuleSearch(rule, hay) ==
    \/ Contains(hay, rule.domain)
    \/ \E i \in 1..Len(hay) :
          /\ OccursAt(hay, P_subject, i)
          /\ \E j \in (i + Len(P_subject))..Len(hay) :
                /\ OccursAt(hay, rule.keyword, j)
                /\ WordBoundary(hay, j - 1)
                /\ WordBoundary(hay, j + Len(rule.keyword) - 1)
                /\ \A k \in (i + Len(P_subject))..(j - 1) : hay[k] # "\n"

canonicalize_source(frm, sub) ==
    LET hay == lower(frm \o <<" ","|","|"," ">> \o sub)
        rules == {n \in 1..Len(SOURCE_RULES) : RuleSearch(SOURCE_RULES[n], hay)}
        names == {n \in 1..Len(CANONICAL_SOURCES) : Contains(hay, lower(CANONICAL_SOURCES[n]))}
    IN  IF rules # {} THEN SOURCE_RULES[Min(rules)].canon
        ELSE IF names # {} THEN CANONICAL_SOURCES[Min(names)]
        ELSE N_Unknown

----------------------------------------------------------------------------
(* Build: archive + email body *)

\* The literal texts of the renderers and of main.  "U+2014" stands for the
\* one character EM DASH.
H_style ==
    <<"\n"," "," "," "," ","<","s","t","y","l","e",">","\n"," "," "," "," ",
      " "," ","b","o","d","y","{","f","o","n","t","-","f","a","m","i","l","y",
      ":","s","y","s","t","e","m","-","u","i",",","-","a","p","p","l","e","-",
      "s","y","s","t","e","m",",","S","e","g","o","e"," ","U","I",",","R","o",
      "b","o","t","o",",","A","r","i","a","l",",","s","a","n","s","-","s","e",
      "r","i","f","}","\n"," "," "," "," "," "," ","h","1",",","h","2","{",
      "m","a","r","g","i","n",":","0",".","4","e","m"," ","0","}","\n"," ",
      " "," "," "," "," ",".","s","r","c","{","m","a","r","g","i","n",":","1",
      "6","p","x"," ","0"," ","8","p","x"," ","0","}","\n"," "," "," "," ",
      " "," ","u","l","{","m","a","r","g","i","n",":","6","p","x"," ","0"," ",
      "1","0","p","x"," ","1","8","p","x","}","\n"," "," "," "," "," "," ",
      "a","{","c","o","l","o","r",":","#","0","b","5","7","d","0",";","t","e",
      "x","t","-","d","e","c","o","r","a","t","i","o","n",":","n","o","n","e",
      "}","\n"," "," "," "," "," "," ","a",":","h","o","v","e","r","{","t",
      "e","x","t","-","d","e","c","o","r","a","t","i","o","n",":","u","n","d",
      "e","r","l","i","n","e","}","\n"," "," "," "," ","<","/","s","t","y",
      "l","e",">","\n"," "," "," "," ">>
H_h1_open ==
    <<"<","h","1",">","A","I"," ","D","a","i","l","y"," ","D","i","g","e","s",
      "t"," ","U+2014"," ">>
H_h1_close ==
    <<"<","/","h","1",">">>
H_h2_open ==
    <<"<","h","2"," ","c","l","a","s","s","=","'","s","r","c","'",">">>
H_h2_close ==
    <<"<","/","h","2",">">>
H_no_email ==
    <<"<","p",">","<","e","m",">","N","o"," ","e","m","a","i","l"," ","f","o",
      "u","n","d"," ","f","o","r"," ","t","o","d","a","y",".","<","/","e","m",
      ">","<","/","p",">">>
H_no_topics ==
    <<"<","p",">","<","e","m",">","N","o"," ","s","t","r","u","c","t","u","r",
      "e","d"," ","t","o","p","i","c","s"," ","d","e","t","e","c","t","e","d",
      ".","<","/","e","m",">","<","/","p",">">>
H_ul_open ==
    <<"<","u","l",">">>
H_ul_close ==
    <<"<","/","u","l",">">>
H_li_open ==
    <<"<","l","i",">">>
H_li_close ==
    <<"<","/","l","i",">">>
H_a_open ==
    <<"<","l","i",">","<","a"," ","h","r","e","f","=","'">>
H_a_mid ==
    <<"'"," ","t","a","r","g","e","t","=","'","_","b","l","a","n","k","'",
      ">">>
H_a_close ==
    <<"<","/","a",">","<","/","l","i",">">>
M_title ==
    <<"#"," ","A","I"," ","D","a","i","l","y"," ","D","i","g","e","s","t"," ",
      "U+2014"," ">>
M_h2 ==
    <<"#","#"," ">>
M_no_email ==
    <<"*","N","o"," ","e","m","a","i","l"," ","f","o","u","n","d"," ","f","o",
      "r"," ","t","o","d","a","y",".","*">>
M_bullet ==
    <<"-"," ">>
GMAIL_LINK_PREFIX ==
    <<"h","t","t","p","s",":","/","/","m","a","i","l",".","g","o","o","g","l",
      "e",".","c","o","m","/","m","a","i","l","/","u","/","0","/","#","i","n",
      "b","o","x","/">>
E_amp ==
    <<"&","a","m","p",";">>
E_lt ==
    <<"&","l","t",";">>
E_gt ==
    <<"&","g","t",";">>
E_quot ==
    <<"&","q","u","o","t",";">>
E_apos ==
    <<"&","#","x","2","7",";">>
S_no_subject ==
    <<"(","n","o"," ","s","u","b","j","e","c","t",")">>
S_unknown ==
    <<"(","u","n","k","n","o","w","n",")">>

\* html.escape(s)
RECURSIVE html_escape(_)
html_escape(s) ==
    IF s = <<>> THEN <<>>
    ELSE (CASE s[1] = "&" -> E_amp
            [] s[1] = "<" -> E_lt
            [] s[1] = ">" -> E_gt
            [] s[1] = "\"" -> E_quot
            [] s[1] = "'" -> E_apos
            [] OTHER -> <<s[1]>>) \o html_escape(Tail(s))

\* The concatenation of the texts of the sequence ss ("".join)
RECURSIVE Concat(_)
Concat(ss) == IF ss = <<>> THEN <<>> ELSE ss[1] \o Concat(Tail(ss))

\* per.get(canon) is truthy
Has(per, canon) == canon \in DOMAIN per

\* "for t,_ in ...: out.append(f"- {t}")" and out.append("")
Bullets(ts) == [n \in 1..Len(ts) |-> M_bullet \o ts[n].t] \o <<<<>>>>
\* Lines 270-280 without the TLDR branch of lines 272-276
MdBody_NoTldr(canon, content, topics, items) ==
    IF topics = <<>> THEN <<compact(content), <<>>>> ELSE Bullets(topics)
\* Lines 270-280 for the content of the source canon
MdBody(canon, content, topics, items) ==
    IF topics = <<>>
    THEN IF canon = N_TldrAi /\ items # <<>>
         THEN Bullets(items)
         ELSE <<compact(content), <<>>>>
    ELSE Bullets(topics)
MdEntry(canon, content) ==
    MdBody(canon, content, split_topics(content), extract_tldr_items(content))
\* What build_md_archive appends to out for the source canon
MdSection(per, canon) ==
    <<M_h2 \o canon>> \o
    (IF ~Has(per, canon) THEN <<M_no_email>> ELSE MdEntry(canon, per[canon].content_md))

build_md_archive(per, today) ==
    compact(join(<<M_title \o today, <<>>>>
                 \o Concat([n \in 1..Len(CANONICAL_SOURCES) |->
                               MdSection(per, CANONICAL_SOURCES[n])])))

\* "<li><a href='{html.escape(u)}' target='_blank'>{html.escape(t)}</a></li>"
LinkItem(t, u) == H_a_open \o html_escape(u) \o H_a_mid \o html_escape(t) \o H_a_close

\* "first_url(b) or gmail_link or '#'"
TopicUrl(found, gmail_link) ==
    IF found # <<>> THEN found
    ELSE IF gmail_link # <<>> THEN gmail_link
    ELSE <<"#">>
\* Lines 305-327 for the entry it of the source canon
HtmlBody(it, canon, topics, items, heads) ==
    IF canon = N_TldrAi /\ topics = <<>> /\ items # <<>>
    THEN <<H_ul_open>>
         \o [n \in 1..Len(items) |-> LinkItem(items[n].t, items[n].u)]
         \o <<H_ul_close>>
    ELSE IF topics = <<>>
         THEN IF heads # <<>>
              THEN <<H_ul_open
                     \o Concat([n \in 1..Len(heads) |->
                                   H_li_open \o html_escape(heads[n]) \o H_li_close])
                     \o H_ul_close>>
              ELSE <<H_no_topics>>
    ELSE <<H_ul_open>>
         \o [n \in 1..Len(topics) |->
                LinkItem(topics[n].t, TopicUrl(first_url(topics[n].body), it.gmail_link))]
         \o <<H_ul_close>>
HtmlEntry(it, canon) ==
    HtmlBody(it, canon, split_topics(it.content_md), extract_tldr_items(it.content_md),
             extract_headlines(it.content_md))
\* What build_html_email_headlines appends to parts for the source canon
HtmlSection(per, canon) ==
    <<H_h2_open \o html_escape(canon) \o H_h2_close>> \o
    (IF ~Has(per, canon) THEN <<H_no_email>> ELSE HtmlEntry(per[canon], canon))

build_html_email_headlines(per, today) ==
    join(<<H_style, H_h1_open \o html_escape(today) \o H_h1_close>>
         \o Concat([n \in 1..Len(CANONICAL_SOURCES) |->
                       HtmlSection(per, CANONICAL_SOURCES[n])]))

----------------------------------------------------------------------------
(* clean_md as a process: one step per input line, then the return *)

L_TogetherWithAcme == <<"T","o","g","e","t","h","e","r"," ","W","i","t","h"," ","A","c","m","e">>
L_AdCopyLine == <<"A","d"," ","c","o","p","y"," ","l","i","n","e">>
L_RealTopic == <<"#","#"," ","R","e","a","l"," ","T","o","p","i","c">>
L_Body == <<"B","o","d","y">>
L_HUnsubscribe == <<"#","#"," ","U","n","s","u","b","s","c","r","i","b","e">>
L_QuickHits == <<"Q","u","i","c","k"," ","H","i","t","s",":">>
L_DealsSponsor == <<"D","e","a","l","s"," ","(","S","p","o","n","s","o","r",")",":">>
L_Sponsoredness == <<"S","p","o","n","s","o","r","e","d","n","e","s","s">>

\* The lines the documents given to clean_md are made of
CleanVocab ==
    { L_TogetherWithAcme, L_AdCopyLine, <<>>, L_RealTopic, L_Body,
      L_HUnsubscribe, L_QuickHits, L_DealsSponsor, L_Sponsoredness }

\* "Together With Acme\nAd copy line\n\n## Real Topic\nBody"
D_SponsorExample ==
    join(<<L_TogetherWithAcme, L_AdCopyLine, <<>>, L_RealTopic, L_Body>>)
\* "Sponsored\nBody  \n  \nKeep me  \n\n\n\nEnd\t"
D_TrailingBlanks ==
    <<"S","p","o","n","s","o","r","e","d","\n","B","o","d","y"," "," ","\n",
      " "," ","\n","K","e","e","p"," ","m","e"," "," ","\n","\n","\n","\n",
      "E","n","d","\t">>

\* A URL token whose \S run after "https://" has exactly LongUrlLen characters,
\* and one that is a character short of it
P_https == <<"h","t","t","p","s",":","/","/">>
L_LongUrl == P_https \o [i \in 1..LongUrlLen |-> "x"]
L_ShortUrl == P_https \o [i \in 1..(LongUrlLen - 1) |-> "x"]
L_SeeLongUrl == <<"S","e","e"," ">> \o L_LongUrl
L_SeeShortUrl == <<"S","e","e"," ">> \o L_ShortUrl
L_End == <<"E","n","d">>
\* "See <long url>\n\n<long url>\n\nEnd"
D_LongUrls == join(<<L_SeeLongUrl, <<>>, L_LongUrl, <<>>, L_End>>)
\* "Body\n<long url>\n<long url>\n<long url>\nEnd"
D_LongUrlLines == join(<<L_Body, L_LongUrl, L_LongUrl, L_LongUrl, L_End>>)
\* "See <short url>\n\n<short url>\n\nEnd"
D_ShortUrls == join(<<L_SeeShortUrl, <<>>, L_ShortUrl, <<>>, L_End>>)

MaxCleanLines == 3

\* The sequences of at most n lines of the vocabulary V
RECURSIVE LineSeqs(_, _)
LineSeqs(V, n) ==
    IF n = 0 THEN {<<>>}
    ELSE LineSeqs(V, n - 1)
         \cup {Append(d, l) : d \in {x \in LineSeqs(V, n - 1) : Len(x) = n - 1}, l \in V}
\* The texts of at most n lines of V, joined by "\n"
Texts(V, n) == {join(d) : d \in LineSeqs(V, n)}

CleanInputs ==
    Texts(CleanVocab, MaxCleanLines)
    \cup {D_SponsorExample, D_TrailingBlanks, D_LongUrls, D_LongUrlLines, D_ShortUrls}

CleanInit ==
    /\ cm_input \in CleanInputs
    /\ cm_lines = splitlines(cm_input)
    /\ cm_i = 0
    /\ cm_skipping = FALSE
    /\ cm_out = <<>>
    /\ cm_pc = "loop"
    /\ cm_result = <<>>
    /\ TopicsOff /\ TldrOff /\ ClassOff /\ RenderOff /\ MainOff

\* One iteration of "for raw in (md or "").splitlines()"
CleanLine ==
    /\ cm_pc = "loop"
    /\ cm_i < Len(cm_lines)
    /\ LET st == CleanStep([skipping |-> cm_skipping, out |-> cm_out], cm_lines[cm_i + 1])
       IN  /\ cm_skipping' = st.skipping
           /\ cm_out' = st.out
    /\ cm_i' = cm_i + 1
    /\ UNCHANGED <<cm_input, cm_lines, cm_pc, cm_result>>
    /\ UNCHANGED <<topicVars, tldrVars, classVars, renderVars, mainVars>>

\* The loop is over: lines 155-159
CleanReturn ==
    /\ cm_pc = "loop"
    /\ cm_i = Len(cm_lines)
    /\ cm_result' = CleanFinish(cm_out)
    /\ cm_pc' = "done"
    /\ UNCHANGED <<cm_input, cm_lines, cm_i, cm_skipping, cm_out>>
    /\ UNCHANGED <<topicVars, tldrVars, classVars, renderVars, mainVars>>

CleanNext == CleanLine \/ CleanReturn
SpecClean == CleanInit /\ [][CleanNext]_vars

----------------------------------------------------------------------------
(* C6: the sponsor-block skip of clean_md *)

\* The line, stripped and lowercased, starts with the word w
C6_StartsWithWord(raw, w) ==
    LET l == lower(strip(raw))
    IN  /\ StartsWith(l, w)
        /\ (Len(l) = Len(w) \/ ~IsWord(l[Len(w) + 1]))
\* A sponsor start, the words taken as whole words
C6_SponsorStart(raw) ==
    \/ C6_StartsWithWord(raw, P_together_with)
    \/ C6_StartsWithWord(raw, P_sponsored)
    \/ Contains(lower(raw), P_lpar_sponsor)
    \/ Contains(lower(raw), P_sponsor_rpar)
\* A sponsor start as the claim words it: the line starts with the letters
C6_SponsorStartLetters(raw) ==
    \/ StartsWith(lower(strip(raw)), P_together_with)
    \/ StartsWith(lower(strip(raw)), P_sponsored)
    \/ Contains(lower(raw), P_lpar_sponsor)
    \/ Contains(lower(raw), P_sponsor_rpar)
C6_Blank(raw) == \A i \in 1..Len(raw) : IsSpace(raw[i])
\* Blank, starting with "#", or a capitalized label line ending in ":"
C6_ResumePoint(raw) ==
    LET s == strip(raw)
    IN  \/ C6_Blank(raw)
        \/ s[1] = "#"
        \/ (Len(s) >= 3 /\ IsUpper(s[1]) /\ s[Len(s)] = ":")
\* The footer rule (step d of the text cleaning)
C6_FooterRule(raw) ==
    /\ Len(rstrip(raw)) <= FooterMaxLen
    /\ \/ \E w \in FooterWords : ContainsWord(lower(raw), w)
       \/ \E d \in SocialDomains : Contains(lower(raw), d)
\* "## Real Topic\nBody"
C6_ExampleResult == join(<<L_RealTopic, L_Body>>)

\* The two-state machine, one line at a time, and the example's result
C6_Machine(wholeWords, footerOnResume) ==
    /\ (cm_pc = "loop" /\ cm_i < Len(cm_lines)) =>
          LET raw == cm_lines[cm_i + 1]
              kept == Append(cm_out, rstrip(raw))
              start(r) == IF wholeWords THEN C6_SponsorStart(r)
                          ELSE C6_SponsorStartLetters(r)
          IN  /\ start(raw) => (cm_skipping' /\ cm_out' = cm_out)
              /\ (~start(raw) /\ cm_skipping /\ ~C6_ResumePoint(raw)) =>
                     (cm_skipping' /\ cm_out' = cm_out)
              /\ (~start(raw) /\ cm_skipping /\ C6_ResumePoint(raw)) =>
                     /\ ~cm_skipping'
                     /\ cm_out' = IF C6_Blank(raw) \/ (footerOnResume /\ C6_FooterRule(raw))
                                  THEN cm_out ELSE kept
              /\ (~start(raw) /\ ~cm_skipping) =>
                     /\ ~cm_skipping'
                     /\ cm_out' = IF C6_FooterRule(raw) THEN cm_out ELSE kept
    /\ (cm_pc' = "done" /\ cm_input = D_SponsorExample) => cm_result' = C6_ExampleResult

\* C6 as amended: a line that starts with the word "together with" or
\* "sponsored" or contains "(sponsor" / "sponsor)" enters skip mode and is
\* dropped; in skip mode every other line is dropped until the first that is
\* blank, starts with "#" or is a capitalized label ending in ":"; that line
\* ends skip mode and is kept, right-stripped, unless it is blank or the footer
\* rule applies to it; outside skip mode a line is kept, right-stripped, unless
\* the footer rule or a sponsor start applies.  The example text yields
\* exactly "## Real Topic\nBody".
T_C6 == [][C6_Machine(TRUE, TRUE)]_vars

\* C6 as stated: a sponsor start is a line that starts with the letters, and
\* the line that ends skip mode is kept unless it is blank.
CE_C6 == [][C6_Machine(FALSE, FALSE)]_vars

\* The example has been cleaned: skip mode entered at "Together With Acme",
\* left at the blank line, and the heading and its body kept.
W_C6 ==
    /\ cm_pc = "done"
    /\ cm_input = D_SponsorExample
    /\ cm_result = C6_ExampleResult

----------------------------------------------------------------------------
(* C11: the blank lines and the line ends of the text clean_md returns *)

C11_Lines == SplitNl(cm_result)
C11_BlankLine(line) == \A i \in 1..Len(line) : IsSpace(line[i])
C11_TrailingSpace(line) == line # <<>> /\ IsSpace(line[Len(line)])
C11_BlankRun ==
    \E k \in 1..(Len(C11_Lines) - 2) :
        \A j \in k..(k + 2) : C11_BlankLine(C11_Lines[j])

\* C11: for every input, the text returned by clean_md has no run of three or
\* more consecutive blank lines and no line that ends with whitespace, also
\* where a line consisted only of, or ended with, a URL token that the
\* long-URL stripping removed.
CE_C11 ==
    cm_pc = "done" =>
        /\ ~C11_BlankRun
        /\ \A k \in 1..Len(C11_Lines) : ~C11_TrailingSpace(C11_Lines[k])

----------------------------------------------------------------------------
(* Topic segmentation as a process: segment a document, write the titles as
   bold lines, segment again *)

L_BoldRealTopic == <<"*","*","R","e","a","l"," ","T","o","p","i","c","*","*">>
L_BigNewChips ==
    <<"B","i","g"," ","*","N","e","w","*"," ","C","h","i","p","s"," ",
      "(","5"," ","m","i","n","u","t","e"," ","r","e","a","d",")">>
L_ShortH2 == <<"#","#"," ","H","i">>

\* The lines the documents given to split_topics are made of
TopicVocab == { L_RealTopic, L_Body, <<>>, L_BoldRealTopic, L_BigNewChips, L_ShortH2 }

MaxTopicLines == 4

TopicInputs == Texts(TopicVocab, MaxTopicLines)

\* The titles of a list of topics, in order
Titles(topics) == [n \in 1..Len(topics) |-> topics[n].t]
\* title written as the bold line **title**
BoldLine(title) == <<"*","*">> \o title \o <<"*","*">>
\* The bold lines of the titles, one per line
BoldText(titles) == join([n \in 1..Len(titles) |-> BoldLine(titles[n])])
\* The bold lines of the titles, each followed by the text line "Body"
BoldBodiedText(titles) ==
    join([n \in 1..Len(titles) |-> BoldLine(titles[n]) \o <<"\n">> \o L_Body])

TopicsInit ==
    /\ tp_input \in TopicInputs
    /\ tp_pc = "doc"
    /\ tp_topics = <<>> /\ tp_heads = <<>>
    /\ tp_bold = <<>> /\ tp_again = <<>> /\ tp_bodied = <<>>
    /\ CleanOff /\ TldrOff /\ ClassOff /\ RenderOff /\ MainOff

\* The renderers' calls: split_topics(md) and extract_headlines(md)
Segment ==
    /\ tp_pc = "doc"
    /\ tp_topics' = split_topics(tp_input)
    /\ tp_heads' = extract_headlines(tp_input)
    /\ tp_pc' = "split"
    /\ UNCHANGED <<tp_input, tp_bold, tp_again, tp_bodied>>
    /\ UNCHANGED <<cleanVars, tldrVars, classVars, renderVars, mainVars>>

\* The extracted titles, written as bold lines, are segmented again
Resegment ==
    /\ tp_pc = "split"
    /\ tp_bold' = BoldText(Titles(tp_topics))
    /\ tp_again' = split_topics(BoldText(Titles(tp_topics)))
    /\ tp_bodied' = split_topics(BoldBodiedText(Titles(tp_topics)))
    /\ tp_pc' = "again"
    /\ UNCHANGED <<tp_input, tp_topics, tp_heads>>
    /\ UNCHANGED <<cleanVars, tldrVars, classVars, renderVars, mainVars>>

TopicsNext == Segment \/ Resegment
SpecTopics == TopicsInit /\ [][TopicsNext]_vars

----------------------------------------------------------------------------
(* C5: the topic titles of a document *)

\* "## Real Topic\nBody\n## Real Topic\nBody"
D_RepeatedHeading == join(<<L_RealTopic, L_Body, L_RealTopic, L_Body>>)

\* C5: for every document, the topic titles returned by split_topics are
\* pairwise distinct; a heading text that occurs on several heading lines
\* yields one topic, the first.
CE_C5 ==
    tp_pc # "doc" =>
        \A m, n \in 1..Len(tp_topics) : tp_topics[m].t = tp_topics[n].t => m = n

----------------------------------------------------------------------------
(* C8: segmenting the extracted titles again *)

C8_NoStar(title) == \A i \in 1..Len(title) : title[i] # "*"

----------------------------------------------------------------------------
(* extract_tldr_items as a process: the link table, then the items *)

L_FooBar7 ==
    <<"F","O","O"," ","B","A","R"," ","(","3"," ","M","I","N","U","T","E"," ",
      "R","E","A","D",")"," ","[","7","]">>
L_BigNews8 ==
    <<"B","i","g"," ","N","e","w","s","."," ","(","5"," ","m","i","n","u","t",
      "e"," ","r","e","a","d",")"," ","[","8","]">>
L_Links ==
    <<"L","i","n","k","s",":">>
L_Ref7a ==
    <<"[","7","]"," ","h","t","t","p","s",":","/","/","e","x","a","m","p","l",
      "e",".","c","o","m","/","a">>
L_Ref7b ==
    <<"[","7","]"," ","h","t","t","p","s",":","/","/","e","x","a","m","p","l",
      "e",".","c","o","m","/","b">>
L_Ref8 ==
    <<"[","8","]"," ","h","t","t","p",":","/","/","x",".","i","o","/","b">>

\* The lines the documents given to extract_tldr_items are made of
TldrVocab == { L_FooBar7, L_BigNews8, L_Links, L_Ref7a, L_Ref7b, L_Ref8 }

MaxTldrLines == 4

TldrInputs == Texts(TldrVocab, MaxTldrLines)

TldrInit ==
    /\ tl_input \in TldrInputs
    /\ tl_pc = "doc"
    /\ tl_ref = <<>>
    /\ tl_items = <<>>
    /\ CleanOff /\ TopicsOff /\ ClassOff /\ RenderOff /\ MainOff

\* Line 240: ref = parse_reference_links(md)
ParseLinks ==
    /\ tl_pc = "doc"
    /\ tl_ref' = parse_reference_links(tl_input)
    /\ tl_pc' = "links"
    /\ UNCHANGED <<tl_input, tl_items>>
    /\ UNCHANGED <<cleanVars, topicVars, classVars, renderVars, mainVars>>

\* Lines 241-258: the items and their deduplication
ExtractItems ==
    /\ tl_pc = "links"
    /\ tl_items' = ItemsFrom(tl_ref, tl_input)
    /\ tl_pc' = "done"
    /\ UNCHANGED <<tl_input, tl_ref>>
    /\ UNCHANGED <<cleanVars, topicVars, classVars, renderVars, mainVars>>

TldrNext == ParseLinks \/ ExtractItems
SpecTldr == TldrInit /\ [][TldrNext]_vars

----------------------------------------------------------------------------
(* C7: the items of extract_tldr_items *)

C7_Lines == splitlines(tl_input)
\* Index of the first line that begins with "Links:" in any case, 0 if none
C7_LinksLine ==
    LET ls == {i \in 1..Len(C7_Lines) : StartsWith(lower(strip(C7_Lines[i])), P_links)}
    IN  IF ls = {} THEN Len(C7_Lines) + 1 ELSE Min(ls)
\* The lines "[id] url" that occur after the first "Links:" line
C7_LinkLines ==
    {i \in (C7_LinksLine + 1)..Len(C7_Lines) : TLDR_LINK_LINE(strip(C7_Lines[i])).ok}
C7_IdAt(i) == TLDR_LINK_LINE(strip(C7_Lines[i])).id
\* The ids of the link table
C7_Ids == {C7_IdAt(i) : i \in C7_LinkLines}
\* The url the table gives an id: that of the last line listing it
C7_Url(id) ==
    TLDR_LINK_LINE(strip(C7_Lines[Max({i \in C7_LinkLines : C7_IdAt(i) = id})])).url
\* The title lines whose id is a key of the table
C7_TitleLines ==
    {i \in 1..Len(C7_Lines) :
        /\ TLDR_TITLE_LINE(strip(C7_Lines[i])).ok
        /\ TLDR_TITLE_LINE(strip(C7_Lines[i])).id \in C7_Ids}
\* The (title, url) pair of the title line i
C7_Pair(i) ==
    [t |-> RStripDots(strip(TLDR_TITLE_LINE(strip(C7_Lines[i])).title)),
     u |-> C7_Url(TLDR_TITLE_LINE(strip(C7_Lines[i])).id)]
\* The first title line that gives the pair p
C7_First(p) == Min({i \in C7_TitleLines : C7_Pair(i) = p})

----------------------------------------------------------------------------
(* canonicalize_source as a process *)

F_Example ==
    <<"n","e","w","s","@","e","x","a","m","p","l","e",".","c","o","m">>
F_Neuron ==
    <<"T","h","e"," ","N","e","u","r","o","n"," ","<","h","e","l","l","o","@",
      "t","h","e","n","e","u","r","o","n","d","a","i","l","y",".","c","o","m",
      ">">>
F_Download ==
    <<"n","e","w","s","l","e","t","t","e","r","s","@","t","e","c","h","n","o",
      "l","o","g","y","r","e","v","i","e","w",".","c","o","m">>
F_Tldr ==
    <<"d","a","n","@","t","l","d","r","n","e","w","s","l","e","t","t","e","r",
      ".","c","o","m">>
F_Superhuman ==
    <<"Z","a","i","n"," ","<","s","u","p","e","r","h","u","m","a","n","@","m",
      "a","i","l",".","j","o","i","n","s","u","p","e","r","h","u","m","a","n",
      ".","a","i",">">>
F_Rundown ==
    <<"n","e","w","s","@","d","a","i","l","y",".","t","h","e","r","u","n","d",
      "o","w","n",".","a","i">>
F_Named ==
    <<"T","h","e"," ","R","u","n","d","o","w","n"," ","A","I"," ","<","c","r",
      "e","w","@","b","e","e","h","i","i","v",".","c","o","m",">">>
U_NeuronDaily ==
    <<"N","e","u","r","o","n"," ","D","a","i","l","y">>
U_TheDownload ==
    <<"T","h","e"," ","D","o","w","n","l","o","a","d",":"," ","c","h","i","p",
      "s">>
U_TldrAi ==
    <<"T","L","D","R"," ","A","I"," ","2","0","2","6","-","1","1","-","0","6">>
U_Superhuman ==
    <<"S","u","p","e","r","h","u","m","a","n"," ","A","I"," ","n","e","w","s">>
U_Rundown ==
    <<"T","h","e"," ","R","u","n","d","o","w","n">>
U_Hello ==
    <<"H","e","l","l","o"," ","t","h","e","r","e">>
U_SubjectNeuron ==
    <<"s","u","b","j","e","c","t",":"," ","N","e","u","r","o","n">>
U_LowerNeuron ==
    <<"t","h","e"," ","n","e","u","r","o","n"," ","w","e","e","k","l","y">>

Senders == { F_Example, F_Neuron, F_Download, F_Tldr, F_Superhuman, F_Rundown, F_Named }
Subjects == { U_NeuronDaily, U_TheDownload, U_TldrAi, U_Superhuman, U_Rundown,
              U_Hello, U_SubjectNeuron, U_LowerNeuron }

ClassInit ==
    /\ cs_frm \in Senders
    /\ cs_sub \in Subjects
    /\ cs_pc = "call"
    /\ cs_canon = <<>>
    /\ CleanOff /\ TopicsOff /\ TldrOff /\ RenderOff /\ MainOff

\* Line 367: canon = canonicalize_source(frm, subject)
Classify ==
    /\ cs_pc = "call"
    /\ cs_canon' = canonicalize_source(cs_frm, cs_sub)
    /\ cs_pc' = "done"
    /\ UNCHANGED <<cs_frm, cs_sub>>
    /\ UNCHANGED <<cleanVars, topicVars, tldrVars, renderVars, mainVars>>

ClassNext == Classify
SpecClassify == ClassInit /\ [][ClassNext]_vars

----------------------------------------------------------------------------
(* C2: the identity of a sender/subject pair *)

\* The sender contains the domain of rule n or the subject its keyword
C2_Names(n) ==
    \/ Contains(cs_frm, SOURCE_RULES[n].domain)
    \/ Contains(cs_sub, SOURCE_RULES[n].keyword)

\* C2: for each of the five canonical source identities,
\* canonicalize_source(sender, subject) returns that identity whenever the
\* sender contains the identity's domain or the subject contains the
\* identity's subject keyword and no other identity's domain or keyword is
\* present.
CE_C2 ==
    cs_pc = "done" =>
        \A n \in 1..Len(SOURCE_RULES) :
            (C2_Names(n) /\ \A k \in 1..Len(SOURCE_RULES) : k # n => ~C2_Names(k))
                => cs_canon = SOURCE_RULES[n].canon

----------------------------------------------------------------------------
(* The renderers as a process: the archive text, then the digest message *)

L_Plain ==
    <<"J","u","s","t"," "," ","s","o","m","e"," ","t","e","x","t">>
L_TopicBody ==
    <<"B","o","d","y"," ","t","e","x","t">>
S_Daily ==
    <<"D","a","i","l","y">>
Today ==
    <<"2","0","2","6","-","1","1","-","0","6">>
ID_m1 ==
    <<"m","1">>

\* The lines the retained contents are made of
RenderVocab == { L_Plain, L_RealTopic, L_FooBar7, L_Links, L_Ref7a, <<>> }

MaxRenderLines == 3

\* content_md is never empty and is stripped (lines 140, 159, 373, 379)
RenderDocs == {strip(d) : d \in Texts(RenderVocab, MaxRenderLines)} \ {<<>>}

\* The item of lines 381-387
Item(canon, subject, md_text, id, epoch) ==
    [source |-> canon, subject |-> subject, content_md |-> md_text,
     gmail_link |-> GMAIL_LINK_PREFIX \o id, epoch |-> epoch]

\* A table with the entry of one source and, with other, an entry of
\* "The Neuron" that has a topic
RenderPers ==
    {[c \in {canon} \cup (IF other THEN {N_TheNeuron} ELSE {}) |->
         IF c = canon THEN Item(canon, S_Daily, d, ID_m1, 1)
         ELSE Item(N_TheNeuron, S_Daily, join(<<L_RealTopic, L_TopicBody>>), ID_m1, 1)] :
       canon \in {N_TldrAi, N_Superhuman}, d \in RenderDocs, other \in BOOLEAN}

RenderInit ==
    /\ rn_per \in RenderPers
    /\ rn_pc = "table"
    /\ rn_md = <<>>
    /\ rn_html = <<>>
    /\ CleanOff /\ TopicsOff /\ TldrOff /\ ClassOff /\ MainOff

\* Line 392: md_archive = build_md_archive(per)
BuildMd ==
    /\ rn_pc = "table"
    /\ rn_md' = build_md_archive(rn_per, Today)
    /\ rn_pc' = "md"
    /\ UNCHANGED <<rn_per, rn_html>>
    /\ UNCHANGED <<cleanVars, topicVars, tldrVars, classVars, mainVars>>

\* Line 399: html_body = build_html_email_headlines(per)
BuildHtml ==
    /\ rn_pc = "md"
    /\ rn_html' = build_html_email_headlines(rn_per, Today)
    /\ rn_pc' = "done"
    /\ UNCHANGED <<rn_per, rn_md>>
    /\ UNCHANGED <<cleanVars, topicVars, tldrVars, classVars, mainVars>>

RenderNext == BuildMd \/ BuildHtml
SpecRender == RenderInit /\ [][RenderNext]_vars

----------------------------------------------------------------------------
(* C4: what the renderers emit for a content without heading lines *)

\* No line of md is a bold line, a "(N minute read)" line or a "## " line
C4_ZeroHeadings(md) ==
    \A i \in 1..Len(splitlines(md)) :
        /\ ~HEADLINE_BOLD(splitlines(md)[i]).ok
        /\ ~HEADLINE_MINREAD(splitlines(md)[i]).ok
        /\ ~SECTION_H2(splitlines(md)[i]).ok
\* Index in the sequence CANONICAL_SOURCES of the source canon
C4_Index(canon) == CHOOSE n \in 1..Len(CANONICAL_SOURCES) : CANONICAL_SOURCES[n] = canon
\* Index of the first line of lines that is the text head, Len + 1 if none
C4_LineOf(lines, head) ==
    LET at == {i \in 1..Len(lines) : lines[i] = head}
    IN  IF at = {} THEN Len(lines) + 1 ELSE Min(at)
\* The text of lines between the heading line of the source number n and the
\* heading line of the next source, heads[k] being the heading line of source k
C4_Between(lines, heads, n) ==
    strip(join(Slice(lines, C4_LineOf(lines, heads[n]) + 1,
                     (IF n < Len(CANONICAL_SOURCES)
                      THEN C4_LineOf(lines, heads[n + 1])
                      ELSE Len(lines) + 1) - 1)))
C4_MdHeads == [n \in 1..Len(CANONICAL_SOURCES) |-> M_h2 \o CANONICAL_SOURCES[n]]
C4_HtmlHeads ==
    [n \in 1..Len(CANONICAL_SOURCES) |->
        H_h2_open \o html_escape(CANONICAL_SOURCES[n]) \o H_h2_close]
\* What the archive and the digest message hold for the source canon
C4_MdOf(canon) == C4_Between(splitlines(rn_md), C4_MdHeads, C4_Index(canon))
C4_HtmlOf(canon) == C4_Between(splitlines(rn_html), C4_HtmlHeads, C4_Index(canon))
\* The list of the titles, and the list of the links to the urls, of items
C4_TitleList(items) == join([n \in 1..Len(items) |-> M_bullet \o items[n].t])
C4_LinkList(items) ==
    join(<<H_ul_open>>
         \o [n \in 1..Len(items) |->
                H_a_open \o html_escape(items[n].u) \o H_a_mid
                \o html_escape(items[n].t) \o H_a_close]
         \o <<H_ul_close>>)
\* A list whose items carry no link
C4_HeadlineOnlyList(sec) ==
    /\ StartsWith(sec, H_ul_open \o H_li_open)
    /\ EndsWith(sec, H_li_close \o H_ul_close)
    /\ ~Contains(sec, <<"<","a"," ">>)
\* The sources of the table whose content has no heading line
C4_Sources == {c \in DOMAIN rn_per : C4_ZeroHeadings(rn_per[c].content_md)}
C4_Resolved(c) == c = N_TldrAi /\ extract_tldr_items(rn_per[c].content_md) # <<>>

\* C4 as amended: for a retained message whose content has no heading-marker
\* line, build_html_email_headlines emits for that source the placeholder
\* "No structured topics detected." and build_md_archive emits the compacted
\* raw text, except that for the source 'TLDR AI', whenever extract_tldr_items
\* returns at least one pair, the digest message lists each title as a link to
\* its url and the archive lists the titles.
T_C4 ==
    rn_pc = "done" =>
        \A c \in C4_Sources :
            IF C4_Resolved(c)
            THEN /\ C4_HtmlOf(c) = C4_LinkList(extract_tldr_items(rn_per[c].content_md))
                 /\ C4_MdOf(c) = C4_TitleList(extract_tldr_items(rn_per[c].content_md))
            ELSE /\ C4_HtmlOf(c) = H_no_topics
                 /\ C4_MdOf(c) = compact(rn_per[c].content_md)

\* C4 as stated: for such a message the digest message holds a headline-only
\* list of items without links and the archive the compacted raw text, except
\* for 'TLDR AI' with at least one resolved pair.
CE_C4 ==
    rn_pc = "done" =>
        \A c \in C4_Sources :
            ~C4_Resolved(c) =>
                /\ C4_HeadlineOnlyList(C4_HtmlOf(c))
                /\ C4_MdOf(c) = compact(rn_per[c].content_md)

\* Both renderers have run on a table where "Superhuman" has a content without
\* heading lines that compaction changes, next to an entry of "The Neuron".
W_C4 ==
    /\ rn_pc = "done"
    /\ DOMAIN rn_per = {N_Superhuman, N_TheNeuron}
    /\ N_Superhuman \in C4_Sources
    /\ compact(rn_per[N_Superhuman].content_md) # rn_per[N_Superhuman].content_md
    /\ C4_HtmlOf(N_Superhuman) = H_no_topics
    /\ C4_MdOf(N_Superhuman) = compact(rn_per[N_Superhuman].content_md)

----------------------------------------------------------------------------
(* main *)

\* The texts main prints and the subject of the digest message
N_no_emails ==
    <<"N","o"," ","m","a","t","c","h","i","n","g"," ","e","m","a","i","l","s",
      " ","f","o","u","n","d"," ","f","o","r"," ","t","o","d","a","y",".">>
N_written ==
    <<"W","r","i","t","t","e","n",":"," ">>
N_sent ==
    <<"S","e","n","t"," ","e","m","a","i","l"," ","t","o"," ">>
S_digest ==
    <<"A","I"," ","D","a","i","l","y"," ","D","i","g","e","s","t"," ",
      "U+2014"," ">>

MinContentLen == 500
MsPerSecond == 1000

\* int(s) for a text of decimal digits
DecimalDigits == <<"0","1","2","3","4","5","6","7","8","9">>
DigitValue(c) == CHOOSE d \in 0..9 : DecimalDigits[d + 1] = c
RECURSIVE ParseInt(_)
ParseInt(s) ==
    IF s = <<>> THEN 0
    ELSE 10 * ParseInt(Slice(s, 1, Len(s) - 1)) + DigitValue(s[Len(s)])
\* Line 369: epoch for the internalDate of the message, <<>> if it has none
EpochOf(internalDate) ==
    IF internalDate # <<>> THEN ParseInt(internalDate) \div MsPerSecond ELSE 0

\* first_header(headers, name) or default
HeaderOr(value, default) == IF value # <<>> THEN value ELSE default

\* "x if len(x)>=len(y) else y" of lines 376 and 378
Longer(x, y) == IF Len(x) >= Len(y) THEN x ELSE y

\* Lines 376-378 with the test of line 377 always false
Normalized_NoFallback(html_md, plain_md, a, b) == Longer(a, b)

\* Lines 376-378: md_text for the cleaned candidates a and b
Normalized(html_md, plain_md, a, b) ==
    IF Len(Longer(a, b)) < MinContentLen THEN Longer(html_md, plain_md)
    ELSE Longer(a, b)

\* Line 379 with the test always false
Retained_Always(md_text) == TRUE

\* Line 379: the iteration goes on to build the item
Retained(md_text) == md_text # <<>>

\* Line 388 with the comparison of the epochs always true
Newer_Always(epoch, recorded) == TRUE

\* Line 388: epoch>per[canon]["epoch"]
Newer(epoch, recorded) == epoch > recorded

\* Line 358 with the test always false
NoIds_Never(ids) == FALSE

\* Line 358: not ids
NoIds(ids) == ids = <<>>

\* The locals of an iteration that line 368 ends
Skipped(id, canon) ==
    [id |-> id, canon |-> canon, subject |-> <<>>, epoch |-> 0, html_md |-> <<>>,
     plain_md |-> <<>>, a |-> <<>>, b |-> <<>>, md_text |-> <<>>]
\* The locals of an iteration that reaches line 379
Locals(id, canon, subject, epoch, html_md, plain_md, a, b) ==
    [id |-> id, canon |-> canon, subject |-> subject, epoch |-> epoch,
     html_md |-> html_md, plain_md |-> plain_md, a |-> a, b |-> b,
     md_text |-> Normalized(html_md, plain_md, a, b)]
\* Lines 369-378 for the message m, html_md being what html_to_md gives for
\* its HTML part and plain its text part
Candidates(m, id, canon, subject, html_md, plain_md) ==
    Locals(id, canon, subject, EpochOf(m.internalDate), html_md, plain_md,
           clean_md(html_md), clean_md(plain_md))
\* Lines 368-378
Classified(m, id, canon, subject) ==
    IF canon \notin Range(CANONICAL_SOURCES) THEN Skipped(id, canon)
    ELSE Candidates(m, id, canon, subject, m.html_md, strip(m.plain))
\* Lines 362-367
Subject(m) == HeaderOr(m.subject, S_no_subject)
Iteration(m, id) ==
    Classified(m, id, canonicalize_source(HeaderOr(m.frm, S_unknown), Subject(m)),
               Subject(m))
\* Lines 368, 379-388: per after the iteration with the locals e
Recorded(per, e) ==
    IF e.canon \notin Range(CANONICAL_SOURCES) \/ ~Retained(e.md_text) THEN per
    ELSE IF e.canon \notin DOMAIN per \/ Newer(e.epoch, per[e.canon].epoch)
         THEN DictPut(per, e.canon, Item(e.canon, e.subject, e.md_text, e.id, e.epoch))
         ELSE per

\* Line 393: markdown.markdown(md_archive, ...), the library's text for md
MarkdownToHtml(md) == <<"markdown.markdown", md>>

\* The id of the n-th message listed
MessageId(n) == <<"m", DecimalDigits[n + 1]>>

----------------------------------------------------------------------------
(* main as a process *)

\* A text of n characters in words of 49 letters
Filler(n) == [i \in 1..n |-> IF i % 50 = 25 THEN " " ELSE "x"]
B_Short == join(<<L_RealTopic, L_Body>>)
B_Sponsor == join(<<L_TogetherWithAcme, L_AdCopyLine>>)
B_Long == Filler(MinContentLen)
B_AlmostLong == Filler(MinContentLen - 1)
T_1000 ==
    <<"1","0","0","0">>
T_1999 ==
    <<"1","9","9","9">>
T_2000 ==
    <<"2","0","0","0">>
T_3000 ==
    <<"3","0","0","0">>

Message(frm, subject, internalDate, html_md, plain) ==
    [frm |-> frm, subject |-> subject, internalDate |-> internalDate,
     html_md |-> html_md, plain |-> plain]

\* The messages a mailbox holds: short, long, empty, with a sponsor block as
\* its text part or as its HTML part, of an unknown sender, text only just
\* under the threshold, and short text at the time of the long one
K_Short == Message(F_Neuron, U_NeuronDaily, T_1000, B_Short, <<>>)
K_Long == Message(F_Neuron, U_NeuronDaily, T_2000, B_Long, L_Plain)
K_Empty == Message(F_Neuron, <<>>, T_3000, <<>>, <<>>)
K_SponsorText == Message(F_Tldr, U_TldrAi, <<>>, B_Short, B_Sponsor)
K_SponsorHtml == Message(F_Superhuman, U_Superhuman, T_2000, B_Sponsor, B_Short)
K_Unknown == Message(<<>>, U_Hello, T_2000, B_Short, <<>>)
K_AlmostLong == Message(F_Neuron, U_NeuronDaily, T_1999, <<>>, B_AlmostLong)
K_ShortLate == Message(F_Neuron, U_NeuronDaily, T_2000, L_Plain, <<>>)
MainKinds ==
    { K_Short, K_Long, K_Empty, K_SponsorText, K_SponsorHtml, K_Unknown,
      K_AlmostLong, K_ShortLate }

MaxMsgs == 2

MainInit ==
    /\ mn_mailbox \in UNION {[1..n -> MainKinds] : n \in 0..MaxMsgs}
    /\ mn_pc = "start"
    /\ mn_k = 0
    /\ mn_per = EmptyDict
    /\ mn_log = <<>>
    /\ mn_notice = <<>>
    /\ mn_md_file = <<>>
    /\ mn_html_file = <<>>
    /\ mn_sent = <<>>
    /\ CleanOff /\ TopicsOff /\ TldrOff /\ ClassOff /\ RenderOff

\* Line 356: svc=gmail_service(); os.makedirs(OUT_DIR, exist_ok=True)
Authenticate ==
    /\ mn_pc = "start"
    /\ mn_pc' = "list"
    /\ UNCHANGED <<mn_mailbox, mn_k, mn_per, mn_log, mn_notice, mn_md_file,
                   mn_html_file, mn_sent>>
    /\ UNCHANGED <<cleanVars, topicVars, tldrVars, classVars, renderVars>>

\* Lines 357-360: the ids of the mailbox; with none, the notice and return
ListIds ==
    /\ mn_pc = "list"
    /\ IF NoIds(mn_mailbox)
       THEN /\ mn_notice' = Append(mn_notice, N_no_emails)
            /\ mn_pc' = "returned"
       ELSE /\ mn_notice' = mn_notice
            /\ mn_pc' = "loop"
    /\ UNCHANGED <<mn_mailbox, mn_k, mn_per, mn_log, mn_md_file, mn_html_file, mn_sent>>
    /\ UNCHANGED <<cleanVars, topicVars, tldrVars, classVars, renderVars>>

\* Lines 361-388: one iteration of "for mid in ids"
ProcessMessage ==
    /\ mn_pc = "loop"
    /\ mn_k < Len(mn_mailbox)
    /\ mn_log' = Append(mn_log, Iteration(mn_mailbox[mn_k + 1], MessageId(mn_k + 1)))
    /\ mn_per' = Recorded(mn_per, mn_log'[Len(mn_log')])
    /\ mn_k' = mn_k + 1
    /\ UNCHANGED <<mn_mailbox, mn_pc, mn_notice, mn_md_file, mn_html_file, mn_sent>>
    /\ UNCHANGED <<cleanVars, topicVars, tldrVars, classVars, renderVars>>

\* Lines 391-394: the archive text is built and the .md file written
WriteMd ==
    /\ mn_pc = "loop"
    /\ mn_k = Len(mn_mailbox)
    /\ mn_md_file' = build_md_archive(mn_per, Today)
    /\ mn_pc' = "md_written"
    /\ UNCHANGED <<mn_mailbox, mn_k, mn_per, mn_log, mn_notice, mn_html_file, mn_sent>>
    /\ UNCHANGED <<cleanVars, topicVars, tldrVars, classVars, renderVars>>

\* Lines 393, 395, 396: the .html file is written
WriteHtml ==
    /\ mn_pc = "md_written"
    /\ mn_html_file' = MarkdownToHtml(mn_md_file)
    /\ mn_notice' = Append(mn_notice, N_written)
    /\ mn_pc' = "written"
    /\ UNCHANGED <<mn_mailbox, mn_k, mn_per, mn_log, mn_md_file, mn_sent>>
    /\ UNCHANGED <<cleanVars, topicVars, tldrVars, classVars, renderVars>>

\* Lines 399-405: the digest message is built and sent
SendDigest ==
    /\ mn_pc = "written"
    /\ mn_sent' = Append(mn_sent, [subject |-> S_digest \o Today,
                                    html_body |-> build_html_email_headlines(mn_per, Today)])
    /\ mn_notice' = Append(mn_notice, N_sent)
    /\ mn_pc' = "done"
    /\ UNCHANGED <<mn_mailbox, mn_k, mn_per, mn_log, mn_md_file, mn_html_file>>
    /\ UNCHANGED <<cleanVars, topicVars, tldrVars, classVars, renderVars>>

\* A call of the mail API or of the file system raises: main ends there
Raise ==
    /\ mn_pc \in {"start", "list", "loop", "md_written", "written"}
    /\ mn_pc' = "raised"
    /\ UNCHANGED <<mn_mailbox, mn_k, mn_per, mn_log, mn_notice, mn_md_file,
                   mn_html_file, mn_sent>>
    /\ UNCHANGED <<cleanVars, topicVars, tldrVars, classVars, renderVars>>

MainNext ==
    \/ Authenticate \/ ListIds \/ ProcessMessage
    \/ WriteMd \/ WriteHtml \/ SendDigest \/ Raise
SpecMain == MainInit /\ [][MainNext]_vars

----------------------------------------------------------------------------
(* C1: one entry per source, the latest *)

\* The iterations that classified to the source c and yielded content
C1_Yielded(c) ==
    {i \in 1..Len(mn_log) : mn_log[i].canon = c /\ mn_log[i].md_text # <<>>}
\* Among them, the first of those with the greatest epoch
C1_Latest(c) ==
    Min({i \in C1_Yielded(c) : \A j \in C1_Yielded(c) : mn_log[j].epoch <= mn_log[i].epoch})
\* The entry the iteration i gives its source
C1_Entry(i) ==
    [source |-> mn_log[i].canon, subject |-> mn_log[i].subject,
     content_md |-> mn_log[i].md_text,
     gmail_link |-> GMAIL_LINK_PREFIX \o mn_log[i].id, epoch |-> mn_log[i].epoch]

\* C1: after the loop of main has handled any sequence of fetched messages,
\* the per-source table holds at most one entry per canonical source, and for
\* every source that entry is the message with the greatest timestamp (the
\* epoch of internalDate) among the processed messages that classified to that
\* source and yielded non-empty content, the first of them when several have
\* it; that table is what build_md_archive and build_html_email_headlines are
\* given, so of two messages of one source with different epochs only the
\* later one's content reaches them, in either order of arrival.
T_C1 ==
    /\ DOMAIN mn_per = {c \in Range(CANONICAL_SOURCES) : C1_Yielded(c) # {}}
    /\ \A c \in DOMAIN mn_per : mn_per[c] = C1_Entry(C1_Latest(c))
    /\ mn_md_file # <<>> => mn_md_file = build_md_archive(mn_per, Today)
    /\ \A n \in 1..Len(mn_sent) :
           mn_sent[n].html_body = build_html_email_headlines(mn_per, Today)

\* The long message of epoch 2 was listed before the short one of epoch 1 of
\* the same source: the digest was sent with the entry of the first.
W_C1 ==
    /\ mn_pc = "done"
    /\ mn_mailbox = <<K_Long, K_Short>>
    /\ mn_per[N_TheNeuron].gmail_link = GMAIL_LINK_PREFIX \o MessageId(1)
    /\ mn_per[N_TheNeuron].epoch = 2
    /\ mn_per[N_TheNeuron].content_md = B_Long

----------------------------------------------------------------------------
(* C3 and C10: the content main retains *)

\* The iteration e went past line 368: its source is a canonical one
C3_Known(e) == e.canon \in Range(CANONICAL_SOURCES)
\* Both representations of the message are empty
C3_NoText(e) == e.html_md = <<>> /\ e.plain_md = <<>>
\* The longer cleaned candidate is under 500 characters
C3_Short(e) == Len(e.a) < MinContentLen /\ Len(e.b) < MinContentLen
\* The step is an iteration of the loop; its locals are the last of the log
C3_Iterates == mn_k' = mn_k + 1
C3_Last == mn_log'[Len(mn_log')]

\* C3 as amended: a message whose HTML-derived and plain-text representations
\* are both empty is excluded in main: it records no entry in the per-source
\* table and never replaces an entry already recorded, so a source has an
\* entry only if some message of that source with text was processed.  A
\* message whose longer cleaned candidate is under 500 characters but that has
\* text is not excluded: it is retained with its longer uncleaned text, as the
\* entry of its source unless the entry recorded is at least as recent.
T_C3 ==
    /\ [][C3_Iterates =>
            /\ (C3_Known(C3_Last) /\ C3_NoText(C3_Last)) => mn_per' = mn_per
            /\ (C3_Known(C3_Last) /\ C3_Short(C3_Last) /\ ~C3_NoText(C3_Last)) =>
                   /\ C3_Last.md_text = Longer(C3_Last.html_md, C3_Last.plain_md)
                   /\ C3_Last.md_text # <<>>
                   /\ IF /\ C3_Last.canon \in DOMAIN mn_per
                         /\ mn_per[C3_Last.canon].epoch >= C3_Last.epoch
                      THEN mn_per' = mn_per
                      ELSE /\ mn_per'[C3_Last.canon].content_md = C3_Last.md_text
                           /\ mn_per'[C3_Last.canon].gmail_link
                                  = GMAIL_LINK_PREFIX \o C3_Last.id]_vars
    /\ [](\A c \in DOMAIN mn_per :
             \E i \in 1..Len(mn_log) : mn_log[i].canon = c /\ ~C3_NoText(mn_log[i]))

\* C3 as stated: a message whose longer cleaned candidate is empty or under 500
\* characters records no entry and replaces none.
CE_C3 ==
    [][(C3_Iterates /\ C3_Known(C3_Last) /\ C3_Short(C3_Last)) => mn_per' = mn_per]_vars

\* The short message was recorded and then the empty message, which is later,
\* was processed: the entry is still that of the short message.
W_C3 ==
    /\ mn_mailbox = <<K_Short, K_Empty>>
    /\ mn_k = 2
    /\ C3_NoText(mn_log[2]) /\ mn_log[2].epoch > mn_log[1].epoch
    /\ mn_per[N_TheNeuron].gmail_link = GMAIL_LINK_PREFIX \o MessageId(1)
    /\ mn_per[N_TheNeuron].content_md = B_Short

\* The cleaned candidate the normalizer selects
C10_Selected(e) == IF Len(e.a) >= Len(e.b) THEN e.a ELSE e.b
\* The iterations that went past line 368
C10_Normalized == {i \in 1..Len(mn_log) : C3_Known(mn_log[i])}

\* C10 as amended: in main, the normalizer selects the longer of the two
\* cleaned candidates, the HTML-derived one when they are as long; when the
\* selected candidate is shorter than 500 characters, the retained content is
\* the longer of the two uncleaned texts, the HTML-derived one when they are
\* as long, whichever candidate was selected; otherwise it is the selected
\* candidate.
T_C10 ==
    \A i \in C10_Normalized :
        mn_log[i].md_text =
            IF Len(C10_Selected(mn_log[i])) < MinContentLen
            THEN (IF Len(mn_log[i].html_md) >= Len(mn_log[i].plain_md)
                  THEN mn_log[i].html_md ELSE mn_log[i].plain_md)
            ELSE C10_Selected(mn_log[i])

\* C10 as stated: when the selected candidate is shorter than 500 characters,
\* the retained content is derived from the representation whose cleaned
\* candidate was not selected.
CE_C10 ==
    \A i \in C10_Normalized :
        Len(C10_Selected(mn_log[i])) < MinContentLen =>
            IF Len(mn_log[i].a) >= Len(mn_log[i].b)
            THEN mn_log[i].md_text \in {mn_log[i].plain_md, mn_log[i].b}
            ELSE mn_log[i].md_text \in {mn_log[i].html_md, mn_log[i].a}

\* Two short messages were normalized: one keeps the uncleaned text of the
\* representation that was selected, the other, whose text part is a sponsor
\* block, gets the uncleaned text part though the HTML candidate was selected.
W_C10 ==
    /\ mn_mailbox = <<K_Short, K_SponsorText>>
    /\ mn_k = 2
    /\ mn_log[1].md_text = B_Short /\ mn_log[1].a = B_Short /\ mn_log[1].b = <<>>
    /\ mn_log[2].a = B_Short /\ mn_log[2].b = <<>> /\ mn_log[2].md_text = B_Sponsor

----------------------------------------------------------------------------
(* C9: no message, no file and no digest; files before the digest *)

\* C9: when the mailbox query returns no message identifiers, main ends after
\* printing a notice without writing either archive file and without sending
\* a digest message; in every run that does send a message, both archive
\* files were written before the send.
T_C9 ==
    /\ mn_mailbox = <<>> =>
           /\ mn_pc \in {"start", "list", "returned", "raised"}
           /\ mn_md_file = <<>> /\ mn_html_file = <<>> /\ mn_sent = <<>>
           /\ mn_pc = "returned" => mn_notice = <<N_no_emails>>
    /\ mn_pc \in {"written", "done"} => (mn_md_file # <<>> /\ mn_html_file # <<>>)
    /\ mn_sent # <<>> => (mn_pc = "done" /\ Len(mn_sent) = 1)

\* The query returned no id: main has printed the notice and returned.
W_C9 ==
    /\ mn_mailbox = <<>>
    /\ mn_pc = "returned"
    /\ mn_notice = <<N_no_emails>>
    /\ mn_md_file = <<>> /\ mn_html_file = <<>> /\ mn_sent = <<>>

====
